---- MODULE Spec2Model ----
(***************************************************************************)
(* A model of the point-of-sale application in src/app.py: the SQLite      *)
(* tables (products, customers, purchases, staff), the Flask session, and  *)
(* one action per POST handler.  A request is received (req), then handled *)
(* as a whole by its handler, which leaves the HTTP response in resp.      *)
(*                                                                         *)
(* Numbers.  points is a REAL column; the model stores a balance as an     *)
(* integer count of 1/PointScale points, so that                           *)
(* (total_amount / 10000) * 1.5 is exact for every integer total.          *)
(* Form fields that the code tests for emptiness (product, quantity, dob,  *)
(* anniversary) are modelled as text; the others by the number they parse  *)
(* to.  Only finite numbers are submitted.                                 *)
(*                                                                         *)
(* Transactions.  sqlite3.connect() opens a connection in the default      *)
(* (deferred, non-autocommit) mode: INSERT and UPDATE open a transaction   *)
(* that only conn.commit() makes durable; a connection that is dropped     *)
(* without commit is rolled back when it is finalised, and its writes are  *)
(* never visible to another connection.  Where requests are served one at  *)
(* a time (Spec, LoyaltySpec, AuthSpec) a request starts after the         *)
(* connections of the earlier ones have been finalised; ConcSpec models    *)
(* the write lock that a live connection holds.                            *)
(***************************************************************************)
EXTENDS Integers, Sequences, FiniteSets, TLC

VARIABLES
    products,   \* products table: row id |-> [name, price, stock] (AUTOINCREMENT ids 1..n)
    customers,  \* customers table: phone |-> [points, dob, anniversary]
    purchases,  \* purchases table: sequence of rows [phone, item, quantity, amount]
    staff,      \* staff table: email |-> [password, role]
    session,    \* the client's Flask session: <<>> or <<[user, role]>>
    today,      \* datetime.today().date(), as a day number
    req,        \* the request being served, or the last one served
    resp,       \* its response; Pending while the handler has not run
    ledger,     \* history, per product id: [initial, checked_out, restocked]
    enrolled,   \* history: the <<email, password>> an owner asked add_staff to register
    conn,       \* concurrent checkout: per worker, the handler's locals and connection
    writer      \* concurrent checkout: the connection holding SQLite's write lock, or 0

vars == <<products, customers, purchases, staff, session, today, req, resp,
          ledger, enrolled, conn, writer>>

db == <<products, customers, purchases, staff>>

-----------------------------------------------------------------------------
(* Bounds of the model *)

MaxStock == 2       \* add_product and restock are admitted while |stock| <= MaxStock
MaxRows == 2        \* purchases are admitted while the purchases table has room
MaxPoints == 200    \* negative redemptions are admitted while the balance <= MaxPoints

(* Program constants *)

EventWindowDays == 7
MinRedeemBalance == 100

PointScale == 2 * 10000

-----------------------------------------------------------------------------
(* Inputs *)

GoodPhone == <<9, 8, 7, 6, 5, 4, 3, 2, 1, 0>>
OtherPhone == <<9, 8, 7, 6, 5, 4, 3, 2, 1, 1>>
ShortPhone == <<1, 2, 3>>
AlphaPhone == <<9, 8, 7, 6, 5, 4, 3, 2, 1, 10>>    \* 10 stands for a non-digit character

NoDate == ""
DobChoices == {NoDate, "2026-11-08"}
AnniversaryChoices == {NoDate, "2026-11-09"}
Days == {0, 1, 8, 9, 10}    \* day d is 2026-11-d; day 0 is 2026-10-31

ItemNames == {"bat", "ball"}
Prices == {-10000, 50000}
StockChoices == {-1, 2}
RestockChoices == {-2, 1}
ProductIds == {1, 2}

ProductChoices == {"1", "2"}
QuantityChoices == {"0", "1", "2"}
BlankLine == [product |-> "", quantity |-> ""]
Lines == [product : ProductChoices, quantity : QuantityChoices] \cup {BlankLine}
PositiveLines == {l \in Lines : l.quantity \in {"1", "2"}}
\* forms of at most two lines; a skipped line comes alone or first
Forms ==
    {<<>>} \cup {<<l>> : l \in Lines} \cup {<<l, m>> : l, m \in PositiveLines}
        \cup {<<l, m>> : l \in {BlankLine, [product |-> "1", quantity |-> "0"]},
                         m \in PositiveLines}
RedeemChoices == {-50, 50, 150}

Emails == {"owner@spectra.com", "clerk@spectra.com"}
Passwords == {"1234", "abcd"}
Roles == {"owner", "staff"}

NoRequest == [op |-> "none"]
NoResponse == [kind |-> "none"]
Pending == [kind |-> "pending"]

-----------------------------------------------------------------------------
(* Library functions the handlers call *)

\* int(text) on the numerals a form submits
int(text) ==
    CASE text = "0" -> 0
      [] text = "1" -> 1
      [] text = "2" -> 2
      [] text = "3" -> 3

\* datetime.strptime(text, "%Y-%m-%d").date(), as a day number
strptime(text) ==
    CASE text = "2026-11-08" -> 8
      [] text = "2026-11-09" -> 9

\* werkzeug.security: a salted one-way hash, and its verification.  A stored
\* value that is not such a hash verifies against no password.
generate_password_hash(password) == [scheme |-> "salted-hash", of |-> password]
check_password_hash(pwhash, password) ==
    pwhash.scheme = "salted-hash" /\ pwhash.of = password

\* len(phone) != 10 or not phone.isdigit()
InvalidPhone(phone) ==
    Len(phone) # 10 \/ ~(\A i \in 1..Len(phone) : phone[i] \in 0..9)

\* the columns of the staff table, and those add_staff's INSERT names
StaffColumns == {"id", "email", "password", "role"}
AddStaffColumns == {"username", "password", "role"}

-----------------------------------------------------------------------------
(* init_db, run at import: empty tables and the default owner account *)

init_db ==
    /\ products = <<>>
    /\ customers = <<>>
    /\ purchases = <<>>
    /\ staff = [e \in {"owner@spectra.com"} |->
                  [password |-> generate_password_hash("1234"), role |-> "owner"]]

Idle ==
    /\ session = <<>>
    /\ req = NoRequest
    /\ resp = NoResponse
    /\ enrolled = {}
    /\ conn = <<>>
    /\ writer = 0

Init ==
    /\ init_db
    /\ Idle
    /\ today = 0
    /\ ledger = <<>>

-----------------------------------------------------------------------------
(* is_event_week: today within [event - 7 days, event] *)

is_event_week(event_date) ==
    IF event_date = NoDate THEN FALSE
    ELSE LET event == strptime(event_date)
             start == event - EventWindowDays
             end == event
         IN  start <= today /\ today <= end


-----------------------------------------------------------------------------
(* Requests *)

Respond(kind) == resp' = [kind |-> kind]

\* A request arrives.  The guards are the bounds of the model only.
Admitted(r) ==
    CASE r.op = "add_product" ->
            \A i \in DOMAIN products : products[i].name # r.name
      [] r.op = "restock" ->
            r.id \in DOMAIN products =>
                LET new_stock == products[r.id].stock + r.stock
                IN  -MaxStock <= new_stock /\ new_stock <= MaxStock
      [] r.op = "purchase" -> Len(purchases) + Len(r.lines) <= MaxRows
      [] r.op = "redeem" ->
            (r.phone \in DOMAIN customers /\ r.points < 0) =>
                customers[r.phone].points <= MaxPoints * PointScale
      [] OTHER -> TRUE

Receive(requests) ==
    /\ resp # Pending
    /\ \E r \in requests :
        /\ Admitted(r)
        /\ req' = r
    /\ resp' = Pending
    /\ UNCHANGED <<db, session, today, ledger, enrolled, conn, writer>>

\* the history of a product added with the given stock
Opening(stock) == [initial |-> stock, checked_out |-> 0, restocked |-> 0]

Handling(op) == resp = Pending /\ req.op = op

\* The clock: the date moves on between requests.
Tick ==
    /\ resp # Pending
    /\ \E d \in Days : d > today /\ today' = d
    /\ UNCHANGED <<db, session, req, resp, ledger, enrolled, conn, writer>>

-----------------------------------------------------------------------------
(* POST /add_customer *)

add_customer ==
    /\ Handling("add_customer")
    /\ IF InvalidPhone(req.phone)
       THEN Respond("Invalid phone number") /\ UNCHANGED customers
       ELSE IF req.phone \in DOMAIN customers
            THEN \* phone TEXT UNIQUE: the INSERT raises, the bare except answers
                 Respond("Phone number already exists") /\ UNCHANGED customers
            ELSE /\ customers' = customers @@
                        (req.phone :> [points |-> 0, dob |-> req.dob,
                                       anniversary |-> req.anniversary])
                 /\ Respond("redirect /dashboard")
    /\ UNCHANGED <<products, purchases, staff, session, today, req, ledger, enrolled, conn, writer>>

-----------------------------------------------------------------------------
(* POST /add_product *)

add_product ==
    /\ Handling("add_product")
    /\ products' = Append(products,
                     [name |-> req.name, price |-> req.price, stock |-> req.stock])
    /\ ledger' = Append(ledger, Opening(req.stock))
    /\ Respond("redirect /products")
    /\ UNCHANGED <<customers, purchases, staff, session, today, req, enrolled, conn, writer>>

-----------------------------------------------------------------------------
(* POST /restock/<product_id> *)

restock ==
    /\ Handling("restock")
    /\ IF req.id \notin DOMAIN products
       THEN Respond("Product not found") /\ UNCHANGED <<products, ledger>>
       ELSE LET product == products[req.id]
                add_stock == req.stock
                new_stock == product.stock + add_stock
            IN  /\ products' = [products EXCEPT ![req.id].stock = new_stock]
                /\ ledger' = [ledger EXCEPT ![req.id].restocked = @ + add_stock]
                /\ Respond("redirect /products")
    /\ UNCHANGED <<customers, purchases, staff, session, today, req, enrolled, conn, writer>>

-----------------------------------------------------------------------------
(* POST /purchase *)

\* SELECT ... FROM products WHERE id=?  with the form's text bound to the
\* INTEGER PRIMARY KEY column: the row whose id the text denotes, if any.
ProductRow(table, product_id) ==
    IF int(product_id) \in DOMAIN table THEN <<int(product_id)>> ELSE <<>>

\* a decrement that forgets the quantity
new_stock_stale(stock, qty) == stock

\* line 214
new_stock_after(stock, qty) == stock - qty

\* The loop over zip(product_ids, quantities), from line i on.  run is the
\* connection's view so far: products with its own uncommitted UPDATEs, the
\* rows it INSERTed, total_amount, and the item whose stock was too low.
RECURSIVE purchase_loop(_, _, _)
purchase_loop(lines, i, run) ==
    IF i > Len(lines) THEN run
    ELSE
    LET product_id == lines[i].product
        qty_text == lines[i].quantity
    IN  IF product_id = "" \/ qty_text = "" THEN purchase_loop(lines, i + 1, run)
        ELSE
        LET qty == int(qty_text)
        IN  IF qty <= 0 THEN purchase_loop(lines, i + 1, run)
            ELSE
            LET found == ProductRow(run.products, product_id)
            IN  IF found = <<>> THEN purchase_loop(lines, i + 1, run)
                ELSE
                LET id == found[1]
                    product == run.products[id]
                    stock == product.stock
                    item_total == product.price * qty
                    new_stock == new_stock_after(stock, qty)
                IN  IF qty > stock
                    THEN [run EXCEPT !.short = <<product.name>>]
                    ELSE purchase_loop(lines, i + 1,
                            [run EXCEPT
                                !.products[id].stock = new_stock,
                                !.rows = Append(@, [phone |-> run.phone,
                                                    item |-> product.name,
                                                    quantity |-> qty,
                                                    amount |-> item_total]),
                                !.total_amount = @ + item_total])

\* (total_amount / 10000) * 1.5, in units of 1/PointScale (a multiple of 1/10000,
\* so the division by 10000 is exact; 1.5 is 15/10)
EarnedPoints(total_amount) == (total_amount * (PointScale \div 10000) * 15) \div 10

\* a multiplier that looks at the birthday only
MultiplierBirthdayOnly(dob, anniversary) == IF is_event_week(dob) THEN 5 ELSE 1

\* the multiplier of lines 236-237
Multiplier(dob, anniversary) ==
    IF is_event_week(dob) \/ is_event_week(anniversary) THEN 5 ELSE 1

\* the offer message of lines 182-186
OfferMessage(dob, anniversary) ==
    IF is_event_week(dob) THEN "Happy Birthday! Special bonus points applied."
    ELSE IF is_event_week(anniversary)
         THEN "Happy Anniversary! Special bonus points applied."
         ELSE ""

\* a connection in autocommit mode: every statement it ran is durable
DroppedAutocommit(committed, run) == [products |-> run.products, rows |-> run.rows]

\* What the database holds after a connection that wrote run is dropped without
\* conn.commit(): the committed tables; the connection's writes are rolled back.
DroppedUncommitted(committed, run) == committed

\* The quantity a form checks out of product id: its lines that name the
\* product with a positive quantity.
RECURSIVE CheckedOut(_, _)
CheckedOut(lines, id) ==
    IF lines = <<>> THEN 0
    ELSE LET l == Head(lines)
             q == IF l.product # "" /\ l.quantity # "" /\ int(l.product) = id
                     /\ int(l.quantity) > 0
                  THEN int(l.quantity) ELSE 0
         IN  q + CheckedOut(Tail(lines), id)

\* the history after a form's checkout succeeded
Sold(lines) ==
    [id \in DOMAIN ledger |->
        [ledger[id] EXCEPT !.checked_out = @ + CheckedOut(lines, id)]]

purchase ==
    /\ Handling("purchase")
    /\ IF req.phone \notin DOMAIN customers
       THEN Respond("Customer not found")
            /\ UNCHANGED <<products, customers, purchases, ledger>>
       ELSE
       LET customer == customers[req.phone]
           points == customer.points
           dob == customer.dob
           anniversary == customer.anniversary
           offer_message == OfferMessage(dob, anniversary)
           run == purchase_loop(req.lines, 1,
                     [phone |-> req.phone, products |-> products, rows |-> <<>>,
                      total_amount |-> 0, short |-> <<>>])
       IN  IF run.short # <<>>
           THEN \* return without commit
                LET kept == DroppedUncommitted(
                                [products |-> products, rows |-> <<>>], run)
                IN  /\ products' = kept.products
                    /\ purchases' = purchases \o kept.rows
                    /\ resp' = [kind |-> "Not enough stock", item |-> run.short[1]]
                    /\ UNCHANGED <<customers, ledger>>
           ELSE
           LET earned_points == EarnedPoints(run.total_amount)
                                    * Multiplier(dob, anniversary)
               new_points == points + earned_points
           IN  /\ products' = run.products
               /\ purchases' = purchases \o run.rows
               /\ customers' = [customers EXCEPT ![req.phone].points = new_points]
               /\ ledger' = Sold(req.lines)
               /\ resp' = [kind |-> "invoice", total |-> run.total_amount,
                           points |-> earned_points, offer |-> offer_message]
    /\ UNCHANGED <<staff, session, today, req, enrolled, conn, writer>>

-----------------------------------------------------------------------------
(* POST /redeem *)

\* line 282
below_minimum(current_points) == current_points < MinRedeemBalance * PointScale

\* a redemption that accepts no request equal to the whole balance
exceeds_or_equals_balance(redeem_points, current_points) == redeem_points >= current_points

\* line 285
exceeds_balance(redeem_points, current_points) == redeem_points > current_points

redeem ==
    /\ Handling("redeem")
    /\ LET redeem_points == req.points * PointScale
       IN  IF req.phone \notin DOMAIN customers
           THEN Respond("Customer not found") /\ UNCHANGED customers
           ELSE
           LET current_points == customers[req.phone].points
               new_points == current_points - redeem_points
           IN  IF below_minimum(current_points)
               THEN Respond("Minimum 100 points required") /\ UNCHANGED customers
               ELSE IF exceeds_balance(redeem_points, current_points)
                    THEN Respond("Not enough points") /\ UNCHANGED customers
                    ELSE /\ customers' =
                                [customers EXCEPT ![req.phone].points = new_points]
                         /\ Respond("Redeemed")
    /\ UNCHANGED <<products, purchases, staff, session, today, req, ledger, enrolled, conn, writer>>

-----------------------------------------------------------------------------
(* POST /  (login) *)

login ==
    /\ Handling("login")
    /\ LET email == req.email
           password == req.password
       IN  IF email \in DOMAIN staff /\ check_password_hash(staff[email].password, password)
           THEN /\ session' = <<[user |-> email, role |-> staff[email].role]>>
                /\ Respond("redirect /dashboard")
           ELSE /\ Respond("login.html")
                /\ UNCHANGED session
    /\ UNCHANGED <<db, today, req, ledger, enrolled, conn, writer>>

-----------------------------------------------------------------------------
(* POST /add_staff *)

\* INSERT INTO staff(<columns>) VALUES (...): raises when a column it names is
\* not a column of the table, or when the email is already present.
InsertStaff(table, columns, email, password, role) ==
    IF ~(columns \subseteq StaffColumns) \/ email \in DOMAIN table
    THEN <<>>
    ELSE <<table @@ (email :> [password |-> [scheme |-> "plain", of |-> password],
                               role |-> role])>>

add_staff ==
    /\ Handling("add_staff")
    /\ IF session = <<>> \/ session[1].role # "owner"
       THEN Respond("redirect /dashboard") /\ UNCHANGED staff
       ELSE LET inserted == InsertStaff(staff, AddStaffColumns,
                                        req.username, req.password, req.role)
            IN  IF inserted = <<>>
                THEN Respond("Staff already exists") /\ UNCHANGED staff
                ELSE staff' = inserted[1] /\ Respond("redirect /dashboard")
    /\ enrolled' = IF session # <<>> /\ session[1].role = "owner"
                        /\ req.username \notin DOMAIN staff
                   THEN {e \in enrolled : e[1] # req.username}
                            \cup {<<req.username, req.password>>}
                   ELSE enrolled
    /\ UNCHANGED <<products, customers, purchases, session, today, req, ledger,
                   conn, writer>>

-----------------------------------------------------------------------------
(* POST /forgot *)

forgot_password ==
    /\ Handling("forgot")
    /\ IF req.email \notin DOMAIN staff
       THEN Respond("Email not found") /\ UNCHANGED staff
       ELSE LET hashed == generate_password_hash(req.password)
            IN  /\ staff' = [staff EXCEPT ![req.email].password = hashed]
                /\ Respond("Password updated successfully")
    /\ enrolled' = IF req.email \in DOMAIN staff
                   THEN {e \in enrolled : e[1] # req.email}
                   ELSE enrolled
    /\ UNCHANGED <<products, customers, purchases, session, today, req, ledger,
                   conn, writer>>

-----------------------------------------------------------------------------
(* The shop: catalogue, stock and checkout, requests served one at a time *)

AddCustomerRequests ==
    {[op |-> "add_customer", phone |-> ph, dob |-> d, anniversary |-> a] :
        ph \in {GoodPhone, ShortPhone, AlphaPhone}, d \in {NoDate}, a \in {NoDate}}

AddProductRequests ==
    {[op |-> "add_product", name |-> n, price |-> p, stock |-> k] :
        n \in ItemNames, p \in Prices, k \in StockChoices}

RestockRequests ==
    {[op |-> "restock", id |-> i, stock |-> k] : i \in ProductIds, k \in RestockChoices}

PurchaseRequests ==
    {[op |-> "purchase", phone |-> GoodPhone, lines |-> f] : f \in Forms}
    \cup {[op |-> "purchase", phone |-> OtherPhone,
           lines |-> <<[product |-> "1", quantity |-> "1"]>>]}

ShopRequests ==
    AddCustomerRequests \cup AddProductRequests \cup RestockRequests
        \cup PurchaseRequests

Next ==
    \/ Receive(ShopRequests)
    \/ add_customer
    \/ add_product
    \/ restock
    \/ purchase

Spec == Init /\ [][Next]_vars

-----------------------------------------------------------------------------
(* Loyalty: a stocked catalogue, customers with event dates, the clock *)

Catalogues ==
    { << [name |-> "bat", price |-> 50000, stock |-> 2],
         [name |-> "ball", price |-> 200000, stock |-> 1] >>,
      << [name |-> "bat", price |-> -10000, stock |-> 1],
         [name |-> "ball", price |-> 50000, stock |-> 2] >> }

LoyaltyInit ==
    /\ products \in Catalogues
    /\ customers = <<>>
    /\ purchases = <<>>
    /\ staff = <<>>
    /\ Idle
    /\ today = 0
    /\ ledger = [id \in DOMAIN products |-> Opening(products[id].stock)]

LoyaltyRequests ==
    {[op |-> "add_customer", phone |-> GoodPhone, dob |-> d, anniversary |-> a] :
        d \in DobChoices, a \in AnniversaryChoices}
    \cup PurchaseRequests
    \cup {[op |-> "redeem", phone |-> ph, points |-> n] :
            ph \in {GoodPhone, OtherPhone}, n \in RedeemChoices}

LoyaltyNext ==
    \/ Receive(LoyaltyRequests)
    \/ Tick
    \/ add_customer
    \/ purchase
    \/ redeem

LoyaltySpec == LoyaltyInit /\ [][LoyaltyNext]_vars

-----------------------------------------------------------------------------
(* Staff accounts and the session *)

AuthRequests ==
    {[op |-> "login", email |-> e, password |-> p] : e \in Emails, p \in Passwords}
    \cup {[op |-> "add_staff", username |-> e, password |-> p, role |-> r] :
            e \in Emails, p \in Passwords, r \in Roles}
    \cup {[op |-> "forgot", email |-> e, password |-> p] : e \in Emails, p \in Passwords}

AuthNext ==
    \/ Receive(AuthRequests)
    \/ login
    \/ add_staff
    \/ forgot_password

AuthSpec == Init /\ [][AuthNext]_vars

-----------------------------------------------------------------------------
(* Concurrent checkout.  app.run() serves each request on its own thread,  *)
(* and each purchase opens its own connection.  A SELECT outside a         *)
(* transaction reads the committed tables; the first UPDATE of a           *)
(* connection begins its transaction and takes SQLite's write lock, which  *)
(* it holds until it commits or is finalised; inside its transaction a     *)
(* connection reads its own writes.  A connection that cannot get the lock *)
(* waits, and raises "database is locked" when its busy timeout expires.   *)
(***************************************************************************)

Workers == {1, 2}

ConcForms ==
    {<<l>> : l \in [product : {"1"}, quantity : {"1", "2"}]}
    \cup {<<[product |-> "2", quantity |-> "1"], [product |-> "1", quantity |-> "2"]>>}

IdleConn == [pc |-> "idle"]

ConcInit ==
    /\ products = << [name |-> "bat", price |-> 50000, stock |-> 3],
                     [name |-> "ball", price |-> 50000, stock |-> 1] >>
    /\ customers = (GoodPhone :> [points |-> 0, dob |-> NoDate, anniversary |-> NoDate])
    /\ purchases = <<>>
    /\ staff = <<>>
    /\ session = <<>>
    /\ req = NoRequest
    /\ resp = NoResponse
    /\ enrolled = {}
    /\ today = 0
    /\ ledger = [id \in DOMAIN products |-> Opening(products[id].stock)]
    /\ conn = [w \in Workers |-> IdleConn]
    /\ writer = 0

Rest == <<staff, session, today, req, resp, enrolled>>

\* lines 156-186: connect, SELECT the customer
conn_begin(w) ==
    /\ conn[w].pc = "idle"
    /\ \E phone \in {GoodPhone, OtherPhone}, lines \in ConcForms :
        IF phone \notin DOMAIN customers
        THEN conn' = [conn EXCEPT ![w] = [pc |-> "done", phone |-> phone,
                                          lines |-> lines,
                                          outcome |-> "Customer not found"]]
        ELSE conn' = [conn EXCEPT ![w] =
                        [pc |-> "loop", phone |-> phone, lines |-> lines, i |-> 1,
                         points |-> customers[phone].points,
                         dob |-> customers[phone].dob,
                         anniversary |-> customers[phone].anniversary,
                         view |-> <<>>, rows |-> <<>>, total_amount |-> 0]]
    /\ UNCHANGED <<db, ledger, writer, Rest>>

\* the tables connection w reads: its own writes once it is in a transaction
Visible(w) == IF writer = w THEN conn[w].view ELSE products

\* lines 188-205: the loop's tests and the SELECT of the product row
select_product(w) ==
    /\ conn[w].pc = "loop"
    /\ LET c == conn[w]
       IN  IF c.i > Len(c.lines)
           THEN conn' = [conn EXCEPT ![w].pc = "points"]
           ELSE
           LET product_id == c.lines[c.i].product
               qty_text == c.lines[c.i].quantity
           IN  IF product_id = "" \/ qty_text = "" THEN conn' = [conn EXCEPT ![w].i = @ + 1]
               ELSE IF int(qty_text) <= 0 THEN conn' = [conn EXCEPT ![w].i = @ + 1]
               ELSE
               LET found == ProductRow(Visible(w), product_id)
               IN  IF found = <<>> THEN conn' = [conn EXCEPT ![w].i = @ + 1]
                   ELSE conn' = [conn EXCEPT ![w] =
                            [id |-> found[1], qty |-> int(qty_text),
                             stock |-> Visible(w)[found[1]].stock]
                            @@ [c EXCEPT !.pc = "check"]]
    /\ UNCHANGED <<db, ledger, writer, Rest>>

\* lines 207-231: the stock check, then the UPDATE of the stock and the INSERT
update_stock(w) ==
    /\ conn[w].pc = "check"
    /\ LET c == conn[w]
           qty == c.qty
           stock == c.stock
           new_stock == new_stock_after(stock, qty)
           base == Visible(w)
           item_total == base[c.id].price * qty
       IN  IF qty > stock
           THEN /\ conn' = [conn EXCEPT ![w].pc = "dropped",
                                        ![w].outcome = "Not enough stock"]
                /\ UNCHANGED writer
           ELSE /\ writer \in {0, w}
                /\ writer' = w
                /\ conn' = [conn EXCEPT
                      ![w].pc = "loop",
                      ![w].i = @ + 1,
                      ![w].view = [base EXCEPT ![c.id].stock = new_stock],
                      ![w].rows = Append(@, [phone |-> c.phone, item |-> base[c.id].name,
                                             quantity |-> qty, amount |-> item_total]),
                      ![w].total_amount = @ + item_total]
    /\ UNCHANGED <<db, ledger, Rest>>

\* lines 233-244: the points, and the UPDATE of the customer
update_points(w) ==
    /\ conn[w].pc = "points"
    /\ writer \in {0, w}
    /\ writer' = w
    /\ LET c == conn[w]
           earned_points == EarnedPoints(c.total_amount) * Multiplier(c.dob, c.anniversary)
       IN  conn' = [conn EXCEPT ![w].pc = "commit",
                                ![w].view = Visible(w),
                                ![w].points = c.points + earned_points]
    /\ UNCHANGED <<db, ledger, Rest>>

\* line 246: conn.commit()
commit(w) ==
    /\ conn[w].pc = "commit"
    /\ LET c == conn[w]
       IN  /\ products' = c.view
           /\ purchases' = purchases \o c.rows
           /\ customers' = [customers EXCEPT ![c.phone].points = c.points]
           /\ ledger' = Sold(c.lines)
           /\ conn' = [conn EXCEPT ![w].pc = "done", ![w].outcome = "invoice"]
    /\ writer' = 0
    /\ UNCHANGED <<staff, Rest>>

\* an UPDATE that waited for the write lock until the busy timeout: the
\* handler dies of sqlite3.OperationalError
busy_timeout(w) ==
    /\ \/ conn[w].pc = "check" /\ conn[w].qty <= conn[w].stock
       \/ conn[w].pc = "points"
    /\ writer \notin {0, w}
    /\ conn' = [conn EXCEPT ![w].pc = "dropped", ![w].outcome = "database is locked"]
    /\ UNCHANGED <<db, ledger, writer, Rest>>

\* a connection dropped without commit is finalised: its transaction is
\* rolled back and its lock released
finalize(w) ==
    /\ conn[w].pc = "dropped"
    /\ conn' = [conn EXCEPT ![w].pc = "done"]
    /\ writer' = IF writer = w THEN 0 ELSE writer
    /\ UNCHANGED <<db, ledger, Rest>>

ConcNext ==
    \E w \in Workers :
        \/ conn_begin(w)
        \/ select_product(w)
        \/ update_stock(w)
        \/ update_points(w)
        \/ commit(w)
        \/ busy_timeout(w)
        \/ finalize(w)

ConcSpec == ConcInit /\ [][ConcNext]_vars

-----------------------------------------------------------------------------
(* Properties *)

Served(op) == req.op = op /\ resp # Pending /\ resp # NoResponse

\* line i of a form names an existing product with a positive quantity
ValidLine(lines, i) ==
    /\ lines[i].product # "" /\ lines[i].quantity # ""
    /\ int(lines[i].quantity) > 0
    /\ int(lines[i].product) \in DOMAIN products

\* C1: for every product, the stored stock equals its initial stock minus the
\* sum of the quantities checked out of it by successful purchases plus the
\* sum of the restock amounts added to it.
C1_StockIsInitialMinusSoldPlusRestocked ==
    \A id \in DOMAIN products :
        products[id].stock =
            ledger[id].initial - ledger[id].checked_out + ledger[id].restocked

\* a restock has just been served for a product that purchases had sold
C1_Witness ==
    /\ Served("restock")
    /\ resp.kind = "redirect /products"
    /\ req.id \in DOMAIN products
    /\ ledger[req.id].checked_out > 0
    /\ ledger[req.id].restocked # 0

\* C2: no product's stock is ever negative.
C2_StockNeverNegative ==
    \A id \in DOMAIN products : products[id].stock >= 0

\* a line that asks for more than the product's current stock
ExceedsStock(lines, i) ==
    ValidLine(lines, i) /\ int(lines[i].quantity) > products[int(lines[i].product)].stock

\* C3: a purchase of an existing customer in which some line asks for more
\* than that product's current stock answers "Not enough stock" and changes
\* no product's stock, records no purchase row and leaves every balance alone.
C3_ShortPurchaseChangesNothing ==
    [][(/\ Handling("purchase")
        /\ req.phone \in DOMAIN customers
        /\ \E i \in DOMAIN req.lines : ExceedsStock(req.lines, i))
       => (/\ resp'.kind = "Not enough stock"
           /\ products' = products
           /\ purchases' = purchases
           /\ customers' = customers)]_vars

\* a purchase was refused on its second line after a first line, for another
\* product, that was in stock
C3_Witness ==
    /\ Served("purchase")
    /\ resp.kind = "Not enough stock"
    /\ Len(req.lines) = 2
    /\ ValidLine(req.lines, 1)
    /\ ~ExceedsStock(req.lines, 1)
    /\ ExceedsStock(req.lines, 2)
    /\ req.lines[1].product # req.lines[2].product

\* C4: a purchase that lists the same product in two or more lines is
\* rejected as an error and leaves every stock unchanged.
C4_DuplicateLinesRejected ==
    [][(/\ Handling("purchase")
        /\ req.phone \in DOMAIN customers
        /\ \E i, j \in DOMAIN req.lines :
            /\ i # j
            /\ ValidLine(req.lines, i) /\ ValidLine(req.lines, j)
            /\ req.lines[i].product = req.lines[j].product)
       => (resp'.kind # "invoice" /\ products' = products)]_vars

\* C5: once an owner has registered a new staff account with add_staff, a
\* login with the same email and password succeeds and establishes the
\* session; a login with an email that was never registered, or with a
\* password other than the account's, fails.
C5_RegisterThenLogin ==
    Served("login") =>
        /\ <<req.email, req.password>> \in enrolled =>
                /\ resp.kind = "redirect /dashboard"
                /\ session # <<>> /\ session[1].user = req.email
        /\ (req.email \notin DOMAIN staff) => resp.kind = "login.html"
        /\ (req.email \in DOMAIN staff
                /\ staff[req.email].password # generate_password_hash(req.password))
            => resp.kind = "login.html"

\* C6: redeem for an existing customer is refused, with the balance unchanged,
\* when the balance is below 100 or the requested points exceed it; in every
\* other case it succeeds and the balance becomes the old one minus the
\* requested points.
C6_Redeem ==
    [][(Handling("redeem") /\ req.phone \in DOMAIN customers)
       => LET balance == customers[req.phone].points
              requested == req.points * PointScale
          IN  IF balance < 100 * PointScale \/ requested > balance
              THEN /\ resp'.kind \in {"Minimum 100 points required", "Not enough points"}
                   /\ customers' = customers
              ELSE /\ resp'.kind = "Redeemed"
                   /\ customers' = [customers EXCEPT ![req.phone].points =
                                                        balance - requested]]_vars

\* 150 points were redeemed from a balance of 200, leaving 50
C6_Witness ==
    /\ Served("redeem")
    /\ resp.kind = "Redeemed"
    /\ req.points = 150
    /\ customers[req.phone].points = 50 * PointScale

\* today is within the seven days up to and including the date
InWindow(date) ==
    date # NoDate /\ \E d \in 0..7 : today + d = strptime(date)

\* the total of a form: unit price times quantity over its valid lines
RECURSIVE FormTotal(_, _)
FormTotal(lines, i) ==
    IF i > Len(lines) THEN 0
    ELSE (IF ValidLine(lines, i)
          THEN products[int(lines[i].product)].price * int(lines[i].quantity)
          ELSE 0) + FormTotal(lines, i + 1)

\* C7: a successful purchase adds exactly the earned points to the customer's
\* balance: (total / 10000) * 1.5 outside the birthday and anniversary weeks,
\* five times that inside at least one of them; the offer message is
\* non-empty exactly when the multiplier applies.
C7_EarnedPoints ==
    [][(Handling("purchase") /\ resp'.kind = "invoice")
       => LET total == FormTotal(req.lines, 1)
              base == (total \div 10000) * 3 * (PointScale \div 2)
              inside == InWindow(customers[req.phone].dob)
                            \/ InWindow(customers[req.phone].anniversary)
              earned == IF inside THEN 5 * base ELSE base
          IN  /\ resp'.total = total
              /\ resp'.points = earned
              /\ customers'[req.phone].points = customers[req.phone].points + earned
              /\ (resp'.offer # "") <=> inside]_vars

\* a purchase of 50000 inside an event week earned 37.5 points
C7_Witness ==
    /\ Served("purchase")
    /\ resp.kind = "invoice"
    /\ resp.total = 50000
    /\ 2 * resp.points = 75 * PointScale
    /\ resp.offer # ""

\* C8: no customer's points balance is ever negative.
C8_PointsNeverNegative ==
    \A phone \in DOMAIN customers : customers[phone].points >= 0

\* C9: concurrent purchases never oversell: the quantity sold of a product by
\* the purchases that succeeded never exceeds the stock there was, and the
\* stock is the starting stock minus that quantity.
C9_NoOverselling ==
    \A id \in DOMAIN products :
        /\ ledger[id].checked_out <= ledger[id].initial
        /\ products[id].stock = ledger[id].initial - ledger[id].checked_out

\* C10: a purchase in which some line with a positive quantity names a
\* product id that does not exist fails as a whole: it is answered with an
\* error, no stock is decremented, no row is recorded, no points are awarded.
C10_UnknownProductFailsPurchase ==
    [][(/\ Handling("purchase")
        /\ req.phone \in DOMAIN customers
        /\ \E i \in DOMAIN req.lines :
            /\ req.lines[i].product # "" /\ req.lines[i].quantity # ""
            /\ int(req.lines[i].quantity) > 0
            /\ int(req.lines[i].product) \notin DOMAIN products)
       => (/\ resp'.kind # "invoice"
           /\ products' = products
           /\ purchases' = purchases
           /\ customers' = customers)]_vars

====
